---- MODULE Spec2Model ----
(***************************************************************************)
(* State-machine model of the mozjpeg wrapper: the compress session        *)
(* (src/src/compress.rs), the decompress session (src/src/decompress.rs),  *)
(* the subsampling geometry, the streaming source adapter and the error    *)
(* bridge.  The codec engine (the ffi:: calls) is an external collaborator *)
(* and is modelled as a nondeterministic environment at its call sites.    *)
(***************************************************************************)
EXTENDS Integers, Sequences, FiniteSets, TLC

\* ------------------------------------------------------------------------
\* Program constants
\* ------------------------------------------------------------------------
DCTSIZE == 8
MAX_MCU_HEIGHT == 16
MAX_COMPONENTS == 4
\* ptr::null() in a row-pointer slot; a non-null slot holds a byte offset >= 0
NULL == -1

\* ------------------------------------------------------------------------
\* Bounds of the model
\* ------------------------------------------------------------------------
\* largest image width / height given to set_size when only geometry is explored
MaxWidth == 45
MaxHeight == 33
\* largest image width / height given to set_size in a full compress session
MaxSessionWidth == 9
MaxSessionHeight == 17
\* largest chroma pixel size given to set_chroma_sampling_pixel_sizes
MaxPx == 2
\* largest sampling factor written through components_mut
MaxSamp == 2
\* largest number of rows given to one write_scanlines call
MaxScanRows == 18
\* largest height of an image given to a decompress session
MaxDecHeight == 9
\* largest number of bytes a fragmenting reader yields at a time
MaxCap == 2
\* how often the reader may answer a pull with no bytes and no end-of-data
MaxTransient == 1
\* how many in-memory output buffers one Compress may have allocated for it
MaxAllocs == 3
\* largest size the engine gives a fresh in-memory output buffer
MaxOut == 2

\* ------------------------------------------------------------------------
\* Helpers
\* ------------------------------------------------------------------------
Max(a, b) == IF a >= b THEN a ELSE b
Min(a, b) == IF a <= b THEN a ELSE b

RECURSIVE MaxOver(_, _)
\* the largest f[i] over a non-empty sequence of numbers, 0 for the empty one
MaxOver(s, n) == IF n = 0 THEN 0 ELSE Max(s[n], MaxOver(s, n - 1))

\* ------------------------------------------------------------------------
\* Geometry calculator (spec 4.1; component.rs is not among the sources)
\* ------------------------------------------------------------------------
\* the division rounding down instead of up
FloorDiv(a, b) == a \div b

\* ceil(a / b) on naturals
CeilDiv(a, b) == (a + b - 1) \div b

\* number of block columns of a component: ceil(width * h_samp / max_h_samp / block_size)
WidthInBlocks(width, h_samp, max_h_samp) == CeilDiv(width * h_samp, max_h_samp * DCTSIZE)

\* number of block rows of a component: ceil(height * v_samp / max_v_samp / block_size)
HeightInBlocks(height, v_samp, max_v_samp) == CeilDiv(height * v_samp, max_v_samp * DCTSIZE)

\* CompInfoExt::row_stride / col_stride: whole blocks times the block size
row_stride(comp) == comp.width_in_blocks * DCTSIZE
col_stride(comp) == comp.height_in_blocks * DCTSIZE

\* a component as jpeg_set_defaults leaves it: factors set, block counts not yet computed
Comp(h, v) == [h_samp_factor |-> h, v_samp_factor |-> v,
               width_in_blocks |-> 0, height_in_blocks |-> 0]

\* ------------------------------------------------------------------------
\* State
\* ------------------------------------------------------------------------
VARIABLES
    session,             \* "compress" or "decompress": the session object of this behaviour
    policy,              \* the ErrorMgr's abandonment policy: "unwind" or "abort"
    fatal,               \* the engine has invoked the fatal-error callback
    resumed,             \* an engine operation ran after the fatal-error callback
    \* ---- Compress
    cinfo,               \* jpeg_compress_struct, the fields the wrapper reads and writes
    px_sizes,            \* chroma pixel sizes in effect: <<cb, cr>>, or <<>> when none were set
    cpc,                 \* position of the caller in the compress session
    image_src,           \* write_raw_data's argument: the length of each component buffer
    start_row,           \* write_raw_data's local cursor
    row_ptrs,            \* write_raw_data's last row-pointer batch
    rows_written,        \* what the engine's write-rows call returned last (-1: no call yet)
    cret,                \* what the last write call returned: "none", "true", "false"
    panic_msg,           \* the panic that ended the session ("" while none)
    engine_start_calls,  \* how often ffi::jpeg_start_compress was invoked
    scan_rows,           \* write_scanlines' argument: the number of rows image_src holds
    chunk_start,         \* the row of image_src at which the current chunk starts
    chunk_len,           \* the number of rows of the current chunk
    rows_left,           \* write_scanlines' rows_left
    row_pointers,        \* write_scanlines' row_pointers: the row of image_src it points to
    accepted,            \* the rows of image_src the engine has accepted in this call
    outbuffer,           \* Compress::outbuffer: the allocation it points to, or NULL
    outsize,             \* Compress::outsize
    heap,                \* for each allocation made by jpeg_mem_dest, how often it was freed
    read_freed,          \* an allocation was read after it was freed
    mcall,               \* the last in-memory destination operation called ("none" so far)
    mret,                \* what the last data_as_mut_slice / data_to_vec returned
    \* ---- Decompress
    dinfo,               \* jpeg_decompress_struct, the fields the wrapper reads and writes
    own_src,             \* Decompress::own_src
    dpc,                 \* position of the caller in the decompress session
    image_dest,          \* the length of each destination buffer of read_raw_data
    dest_row_ptrs,       \* read_raw_data_chunk's last row-pointer batch
    lines_read,          \* what the engine's read-rows call returned last (-1: no call yet)
    rows_read,           \* what the engine's read-scanlines call returned last (-1: no call yet)
    dret,                \* what the last read call returned: "none", "ok", "Some", "None"
    bitmap_len,          \* the length of the bitmap read_scanlines allocated
    \* ---- Streaming source adapter and its reader
    stream,              \* the image the byte stream encodes, and the stream's length
    reader,              \* the pull-based reader: bytes available, bytes pulled, fragment size
    srcmgr,              \* the adapter: its state and the unconsumed bytes of its buffer
    taken,               \* the bytes the engine has consumed, in order
    skip_left,           \* bytes still to discard for the skip in progress
    skips,               \* how many skip requests the engine has made
    released,            \* how often the reader was released
    drop_term            \* <<src, own_src>> when the teardown path invoked terminate

commonVars == <<session, policy, fatal, resumed, panic_msg>>
scanVars == <<scan_rows, chunk_start, chunk_len, rows_left, row_pointers, accepted>>
memVars == <<outbuffer, outsize, heap, read_freed, mcall, mret>>
compressVars == <<cinfo, px_sizes, cpc, image_src, start_row, row_ptrs, rows_written,
                  cret, engine_start_calls, scanVars, memVars>>
sourceVars == <<stream, reader, srcmgr, taken, skip_left, skips, released>>
decompressVars == <<dinfo, own_src, dpc, image_dest, dest_row_ptrs, lines_read, rows_read,
                    dret, bitmap_len, drop_term>>
vars == <<commonVars, compressVars, decompressVars, sourceVars>>

\* ------------------------------------------------------------------------
\* Error bridge (spec 4.5; errormgr.rs is not among the sources)
\* ------------------------------------------------------------------------
Policies == {"unwind", "abort"}

\* a fatal-error handler that returns into the call it interrupted, at position at
ErrorExitReturns(p, at) == at

\* where control goes when the engine calls error_exit during the call at
\* position at: the stack is unwound or the process aborted, never back to at
ErrorExit(p, at) == IF p = "unwind" THEN "unwound" ELSE "aborted"

\* ------------------------------------------------------------------------
\* Compress session
\* ------------------------------------------------------------------------
ColorSpaces == {"JCS_GRAYSCALE", "JCS_YCbCr", "JCS_CMYK"}

\* the components jpeg_set_defaults creates for an input colour space
DefaultComps(cs) ==
    CASE cs = "JCS_GRAYSCALE" -> <<Comp(1, 1)>>
      [] cs = "JCS_YCbCr"     -> <<Comp(2, 2), Comp(1, 1), Comp(1, 1)>>
      [] cs = "JCS_CMYK"      -> <<Comp(1, 1), Comp(1, 1), Comp(1, 1), Comp(1, 1)>>

NoRows == [ci \in 1..MAX_COMPONENTS |-> [ri \in 1..MAX_MCU_HEIGHT |-> NULL]]

\* a compress session holds no decompress state
NoDecompress ==
    /\ dinfo = [src |-> NULL]
    /\ own_src = NULL
    /\ dpc = "none"
    /\ image_dest = <<>>
    /\ dest_row_ptrs = NoRows
    /\ lines_read = -1
    /\ rows_read = -1
    /\ dret = "none"
    /\ bitmap_len = 0
    /\ stream = [len |-> 0]
    /\ reader = [len |-> 0]
    /\ srcmgr = [state |-> "Uninitialized"]
    /\ taken = <<>>
    /\ skip_left = 0
    /\ skips = 0
    /\ released = 0
    /\ drop_term = <<>>

\* no write_scanlines call has been made
NoScan ==
    /\ scan_rows = 0
    /\ chunk_start = 0
    /\ chunk_len = 0
    /\ rows_left = 0
    /\ row_pointers = 0
    /\ accepted = 0

\* outbuffer: ptr::null_mut(), outsize: 0, and nothing allocated
NoMem ==
    /\ outbuffer = NULL
    /\ outsize = 0
    /\ heap = <<>>
    /\ read_freed = FALSE
    /\ mcall = "none"
    /\ mret = "none"

\* Compress::new_err
new_err(p, cs) ==
    /\ session = "compress"
    /\ policy = p
    /\ fatal = FALSE
    /\ resumed = FALSE
    /\ panic_msg = ""
    /\ cinfo = [image_width |-> 0, image_height |-> 0,
                comp_info |-> DefaultComps(cs),
                max_h_samp_factor |-> 0, max_v_samp_factor |-> 0,
                raw_data_in |-> FALSE, next_scanline |-> 0,
                global_state |-> "CSTATE_START"]
    /\ px_sizes = <<>>
    /\ cpc = "ready"
    /\ image_src = <<>>
    /\ start_row = 0
    /\ row_ptrs = NoRows
    /\ rows_written = -1
    /\ cret = "none"
    /\ engine_start_calls = 0
    /\ NoScan
    /\ NoMem
    /\ NoDecompress

\* Compress::components
components == cinfo.comp_info

\* settings are changed before start_compress only
Configurable == cpc = "ready" /\ cinfo.global_state = "CSTATE_START"

\* Compress::set_size
set_size(width, height) ==
    /\ Configurable
    /\ cinfo' = [cinfo EXCEPT !.image_width = width, !.image_height = height]
    /\ UNCHANGED <<decompressVars, sourceVars, scanVars, memVars>>
    /\ UNCHANGED <<commonVars, px_sizes, cpc, image_src, start_row, row_ptrs,
                   rows_written, cret, engine_start_calls>>

\* Compress::set_raw_data_in
set_raw_data_in(opt) ==
    /\ Configurable
    /\ cinfo' = [cinfo EXCEPT !.raw_data_in = opt]
    /\ UNCHANGED <<decompressVars, sourceVars, scanVars, memVars>>
    /\ UNCHANGED <<commonVars, px_sizes, cpc, image_src, start_row, row_ptrs,
                   rows_written, cret, engine_start_calls>>

\* Compress::components_mut, used to write one component's sampling factors
components_mut(ci, h, v) ==
    /\ Configurable
    /\ ci \in 1..Len(components)
    /\ cinfo' = [cinfo EXCEPT !.comp_info[ci].h_samp_factor = h,
                              !.comp_info[ci].v_samp_factor = v]
    /\ px_sizes' = <<>>
    /\ UNCHANGED <<decompressVars, sourceVars, scanVars, memVars>>
    /\ UNCHANGED <<commonVars, cpc, image_src, start_row, row_ptrs,
                   rows_written, cret, engine_start_calls>>

\* set_chroma_sampling_pixel_sizes zipping the components with [cb, cr] only
ChromaSamplingNoLuma(comps, cb, cr) ==
    LET max_sampling_h == Max(cb[1], cr[1])
        max_sampling_v == Max(cb[2], cr[2])
        sizes == <<cb, cr>>
    IN  [i \in 1..Len(comps) |->
            IF i <= 2
            THEN [comps[i] EXCEPT !.h_samp_factor = max_sampling_h \div sizes[i][1],
                                  !.v_samp_factor = max_sampling_v \div sizes[i][2]]
            ELSE comps[i]]

\* set_chroma_sampling_pixel_sizes visiting every component, those beyond the
\* third with the pixel size (1,1)
ChromaSamplingEvery(comps, cb, cr) ==
    LET max_sampling_h == Max(cb[1], cr[1])
        max_sampling_v == Max(cb[2], cr[2])
        sizes == <<<<1, 1>>, cb, cr>>
    IN  [i \in 1..Len(comps) |->
            [comps[i] EXCEPT
                !.h_samp_factor = max_sampling_h \div (IF i <= 3 THEN sizes[i][1] ELSE 1),
                !.v_samp_factor = max_sampling_v \div (IF i <= 3 THEN sizes[i][2] ELSE 1)]]

\* set_chroma_sampling_pixel_sizes dividing the largest sampling factor of the
\* format, 4, rather than the larger of the two pixel sizes
ChromaSamplingOfFour(comps, cb, cr) ==
    LET sizes == <<<<1, 1>>, cb, cr>>
    IN  [i \in 1..Len(comps) |->
            IF i <= 3
            THEN [comps[i] EXCEPT !.h_samp_factor = 4 \div sizes[i][1],
                                  !.v_samp_factor = 4 \div sizes[i][2]]
            ELSE comps[i]]

\* the loop of set_chroma_sampling_pixel_sizes: zip of the components with
\* [(1,1), cb, cr], so components beyond the third are not visited
ChromaSampling(comps, cb, cr) ==
    LET max_sampling_h == Max(cb[1], cr[1])
        max_sampling_v == Max(cb[2], cr[2])
        sizes == <<<<1, 1>>, cb, cr>>
    IN  [i \in 1..Len(comps) |->
            IF i <= 3
            THEN [comps[i] EXCEPT !.h_samp_factor = max_sampling_h \div sizes[i][1],
                                  !.v_samp_factor = max_sampling_v \div sizes[i][2]]
            ELSE comps[i]]

\* Compress::set_chroma_sampling_pixel_sizes
set_chroma_sampling_pixel_sizes(cb, cr) ==
    /\ Configurable
    /\ cinfo' = [cinfo EXCEPT !.comp_info = ChromaSampling(components, cb, cr)]
    /\ px_sizes' = <<cb, cr>>
    /\ UNCHANGED <<decompressVars, sourceVars, scanVars, memVars>>
    /\ UNCHANGED <<commonVars, cpc, image_src, start_row, row_ptrs,
                   rows_written, cret, engine_start_calls>>

\* start_compress with its second assert left out
StartFailureHOnly(comps) ==
    IF ~\E i \in 1..Len(comps) : comps[i].h_samp_factor = 1
    THEN "at least one h_samp_factor must be 1"
    ELSE ""

\* the asserts of start_compress: the message of the first that fails, "" when none does
StartFailure(comps) ==
    IF ~\E i \in 1..Len(comps) : comps[i].h_samp_factor = 1
    THEN "at least one h_samp_factor must be 1"
    ELSE IF ~\E i \in 1..Len(comps) : comps[i].v_samp_factor = 1
    THEN "at least one v_samp_factor must be 1"
    ELSE ""

\* what ffi::jpeg_start_compress leaves in cinfo when it succeeds: the maxima,
\* each component's block counts, the cursor, the state
EngineStartCompress(ci) ==
    LET n == Len(ci.comp_info)
        mh == MaxOver([i \in 1..n |-> ci.comp_info[i].h_samp_factor], n)
        mv == MaxOver([i \in 1..n |-> ci.comp_info[i].v_samp_factor], n)
    IN  [ci EXCEPT
            !.max_h_samp_factor = mh,
            !.max_v_samp_factor = mv,
            !.comp_info = [i \in 1..n |->
                [ci.comp_info[i] EXCEPT
                    !.width_in_blocks =
                        WidthInBlocks(ci.image_width, ci.comp_info[i].h_samp_factor, mh),
                    !.height_in_blocks =
                        HeightInBlocks(ci.image_height, ci.comp_info[i].v_samp_factor, mv)]],
            !.next_scanline = 0,
            !.global_state = IF ci.raw_data_in THEN "CSTATE_RAW_OK" ELSE "CSTATE_SCANNING"]

\* the engine rejects an empty image and a second start
EngineStartAccepts(ci) ==
    /\ ci.global_state = "CSTATE_START"
    /\ ci.image_width > 0
    /\ ci.image_height > 0

\* Compress::start_compress
start_compress ==
    /\ cpc = "ready"
    /\ IF StartFailure(components) # ""
       THEN /\ cpc' = "panicked"
            /\ panic_msg' = StartFailure(components)
            /\ UNCHANGED <<cinfo, fatal, engine_start_calls>>
       ELSE /\ engine_start_calls' = engine_start_calls + 1
            /\ \E ok \in {TRUE, FALSE} :
                 IF ok /\ EngineStartAccepts(cinfo)
                 THEN /\ cinfo' = EngineStartCompress(cinfo)
                      /\ UNCHANGED <<cpc, fatal>>
                 ELSE /\ fatal' = TRUE
                      /\ cpc' = ErrorExit(policy, cpc)
                      /\ UNCHANGED cinfo
            /\ UNCHANGED panic_msg
    /\ UNCHANGED <<decompressVars, sourceVars, scanVars, memVars>>
    /\ UNCHANGED <<session, policy, resumed, px_sizes, image_src, start_row, row_ptrs,
                   rows_written, cret>>

\* Compress::can_write_more_lines
can_write_more_lines == cinfo.next_scanline < cinfo.image_height

\* the bytes write_raw_data requires of component ci's buffer
BitmapSize(comp) == row_stride(comp) * col_stride(comp)

\* the checks of write_raw_data without the one on the number of buffers
WriteRawDataCheckNoCount(src) ==
    LET mcu_height == cinfo.max_v_samp_factor * DCTSIZE
        num_components == Len(components)
    IN  IF ~cinfo.raw_data_in THEN "Raw data not set"
        ELSE IF mcu_height > MAX_MCU_HEIGHT THEN "Subsampling factor too large"
        ELSE IF ~(mcu_height > 0) THEN "assertion failed: mcu_height > 0"
        ELSE IF \E ci \in 1..Min(num_components, Len(src)) :
                    BitmapSize(components[ci]) > src[ci]
             THEN "Bitmap too small"
        ELSE ""

\* the checks of write_raw_data without the one on the size of the buffers
WriteRawDataCheckNoSize(src) ==
    LET mcu_height == cinfo.max_v_samp_factor * DCTSIZE
        num_components == Len(components)
    IN  IF ~cinfo.raw_data_in THEN "Raw data not set"
        ELSE IF mcu_height > MAX_MCU_HEIGHT THEN "Subsampling factor too large"
        ELSE IF ~(mcu_height > 0) THEN "assertion failed: mcu_height > 0"
        ELSE IF num_components > MAX_COMPONENTS \/ num_components > Len(src)
             THEN "Too many components"
        ELSE ""

\* the first check of write_raw_data that fails for the buffers src, "" when none does
WriteRawDataCheck(src) ==
    LET mcu_height == cinfo.max_v_samp_factor * DCTSIZE
        num_components == Len(components)
    IN  IF ~cinfo.raw_data_in THEN "Raw data not set"
        ELSE IF mcu_height > MAX_MCU_HEIGHT THEN "Subsampling factor too large"
        ELSE IF ~(mcu_height > 0) THEN "assertion failed: mcu_height > 0"
        ELSE IF num_components > MAX_COMPONENTS \/ num_components > Len(src)
             THEN "Too many components"
        ELSE IF \E ci \in 1..num_components : BitmapSize(components[ci]) > src[ci]
             THEN "Bitmap too small"
        ELSE ""

\* write_raw_data up to its loop: the checks, then start_row = next_scanline
write_raw_data(src) ==
    /\ cpc = "ready"
    /\ cret' = "none"
    /\ rows_written' = -1
    /\ IF WriteRawDataCheck(src) # ""
       THEN /\ cpc' = "panicked"
            /\ panic_msg' = WriteRawDataCheck(src)
            /\ image_src' = src
            /\ UNCHANGED start_row
       ELSE /\ cpc' = "write_raw_data"
            /\ image_src' = src
            /\ start_row' = cinfo.next_scanline
            /\ UNCHANGED panic_msg
    /\ UNCHANGED <<decompressVars, sourceVars, scanVars, memVars>>
    /\ UNCHANGED <<session, policy, fatal, resumed, cinfo, px_sizes, row_ptrs,
                   engine_start_calls>>

\* one component's part of a batch, its first row taken to be start_row itself
\* and not start_row scaled by the component's share of max_v_samp_factor
CompBatchUnscaled(ci) ==
    LET comp == components[ci]
        stride == row_stride(comp)
        input_height == image_src[ci] \div stride
        comp_start_row == start_row
        avail == input_height - comp_start_row
        comp_height == Min(avail, DCTSIZE * comp.v_samp_factor)
    IN  [comp_start_row |-> comp_start_row,
         comp_height |-> comp_height,
         \* usize subtraction: a debug build panics on the underflow; a release build
         \* wraps, takes the batch height, and panics on the first slice
         failure |-> IF avail < 0 THEN "row range out of the buffer"
                     ELSE IF ~(comp_height >= 8) THEN "assertion failed: comp_height >= 8"
                     ELSE IF comp_height > MAX_MCU_HEIGHT THEN "index out of bounds"
                     ELSE IF (comp_start_row + comp_height) * stride > image_src[ci]
                          THEN "range end index out of range"
                     ELSE "",
         ptrs |-> [ri \in 1..MAX_MCU_HEIGHT |->
                     IF ri <= comp_height THEN (comp_start_row + ri - 1) * stride
                     ELSE NULL]]

\* one component's part of a batch: the rows available, the batch height, and
\* the failure building it runs into ("" when none)
CompBatch(ci) ==
    LET comp == components[ci]
        stride == row_stride(comp)
        input_height == image_src[ci] \div stride
        comp_start_row == (start_row * comp.v_samp_factor) \div cinfo.max_v_samp_factor
        avail == input_height - comp_start_row
        comp_height == Min(avail, DCTSIZE * comp.v_samp_factor)
    IN  [comp_start_row |-> comp_start_row,
         comp_height |-> comp_height,
         \* usize subtraction: a debug build panics on the underflow; a release build
         \* wraps, takes the batch height, and panics on the first slice
         failure |-> IF avail < 0 THEN "row range out of the buffer"
                     ELSE IF ~(comp_height >= 8) THEN "assertion failed: comp_height >= 8"
                     ELSE IF comp_height > MAX_MCU_HEIGHT THEN "index out of bounds"
                     ELSE IF (comp_start_row + comp_height) * stride > image_src[ci]
                          THEN "range end index out of range"
                     ELSE "",
         ptrs |-> [ri \in 1..MAX_MCU_HEIGHT |->
                     IF ri <= comp_height THEN (comp_start_row + ri - 1) * stride
                     ELSE NULL]]

\* the failure of the first component whose batch cannot be built, "" when none
BatchFailure ==
    LET bad == {ci \in 1..Len(components) : CompBatch(ci).failure # ""}
    IN  IF bad = {} THEN ""
        ELSE CompBatch(CHOOSE ci \in bad : \A cj \in bad : ci <= cj).failure

\* row_ptrs as one iteration of the loop fills it
BuildRowPtrs ==
    [ci \in 1..MAX_COMPONENTS |->
        IF ci <= Len(components) THEN CompBatch(ci).ptrs
        ELSE [ri \in 1..MAX_MCU_HEIGHT |-> NULL]]

\* the row counts ffi::jpeg_write_raw_data may return when offered n rows
RowsAccepted(n) == {0, n} \cup ({DCTSIZE} \cap 0..n)

\* write_raw_data going round its loop again whatever the engine answered
AfterRowsWrittenRetry(r) ==
    /\ start_row' = start_row + r
    /\ UNCHANGED <<cpc, cret>>

\* what write_raw_data does with the engine's answer r: 0 ends the call with
\* false, anything else advances start_row and goes round the loop
AfterRowsWritten(r) ==
    IF r = 0
    THEN /\ cpc' = "ready"
         /\ cret' = "false"
         /\ UNCHANGED start_row
    ELSE /\ start_row' = start_row + r
         /\ UNCHANGED <<cpc, cret>>

\* one iteration of write_raw_data's loop
write_raw_data_batch ==
    /\ cpc = "write_raw_data"
    /\ can_write_more_lines
    /\ IF BatchFailure # ""
       THEN /\ cpc' = "panicked"
            /\ panic_msg' = BatchFailure
            /\ UNCHANGED <<cinfo, fatal, resumed, row_ptrs, rows_written, cret, start_row>>
       ELSE /\ row_ptrs' = BuildRowPtrs
            /\ resumed' = (resumed \/ fatal)
            /\ \/ \E r \in RowsAccepted(cinfo.max_v_samp_factor * DCTSIZE) :
                    /\ rows_written' = r
                    /\ cinfo' = [cinfo EXCEPT !.next_scanline = @ + r]
                    /\ AfterRowsWritten(r)
                    /\ UNCHANGED fatal
               \/ /\ fatal' = TRUE
                  /\ cpc' = ErrorExit(policy, cpc)
                  /\ UNCHANGED <<cinfo, rows_written, cret, start_row>>
            /\ UNCHANGED panic_msg
    /\ UNCHANGED <<decompressVars, sourceVars, scanVars, memVars>>
    /\ UNCHANGED <<session, policy, px_sizes, image_src, engine_start_calls>>

\* the loop of write_raw_data ends: every row was consumed
write_raw_data_done ==
    /\ cpc = "write_raw_data"
    /\ ~can_write_more_lines
    /\ cpc' = "ready"
    /\ cret' = "true"
    /\ UNCHANGED <<decompressVars, sourceVars, scanVars, memVars>>
    /\ UNCHANGED <<commonVars, cinfo, px_sizes, image_src, start_row, row_ptrs,
                   rows_written, engine_start_calls>>

\* the buffers a caller hands to write_raw_data: one buffer too few, one too many,
\* or one per component, each of the required size but possibly one of them, which
\* is a byte short or a row long
SrcBuffers ==
    LET n == Len(components)
        need(i) == IF i <= n THEN BitmapSize(components[i]) ELSE 0
        len(i, d) == IF d = 0 THEN need(i)
                     ELSE IF d < 0 THEN Max(0, need(i) - 1)
                     ELSE need(i) + row_stride(components[i])
    IN  { [i \in 1..nb |-> need(i)] : nb \in {n - 1, n + 1} }
        \cup { [i \in 1..n |-> IF i = j THEN len(i, d) ELSE need(i)] :
                   j \in 1..n, d \in {-1, 0, 1} }

\* ------------------------------------------------------------------------
\* Compress session: write_scanlines
\* ------------------------------------------------------------------------
\* the asserts of write_scanlines: the message of the first that fails, "" when
\* none does (input_components is the colour space's, never 0)
WriteScanlinesCheck ==
    IF cinfo.raw_data_in THEN "assertion failed: 0 == raw_data_in"
    ELSE IF ~(cinfo.image_width > 0) THEN "assertion failed: image_width > 0"
    ELSE ""

\* write_scanlines up to its loop over the chunks of image_src, which holds n rows
write_scanlines(n) ==
    /\ cpc = "ready"
    /\ cret' = "none"
    /\ rows_written' = -1
    /\ scan_rows' = n
    /\ chunk_start' = 0
    /\ chunk_len' = 0
    /\ rows_left' = 0
    /\ row_pointers' = 0
    /\ accepted' = 0
    /\ IF WriteScanlinesCheck # ""
       THEN cpc' = "panicked" /\ panic_msg' = WriteScanlinesCheck
       ELSE cpc' = "write_scanlines" /\ UNCHANGED panic_msg
    /\ UNCHANGED <<decompressVars, sourceVars, memVars>>
    /\ UNCHANGED <<session, policy, fatal, resumed, cinfo, px_sizes, image_src, start_row,
                   row_ptrs, engine_start_calls>>

\* write_scanlines cutting image_src into chunks of one iMCU row of the image
ScanChunkRowsMcu(n, start) == Min(cinfo.max_v_samp_factor * DCTSIZE, n - start)

\* the rows of the chunk of image_src.chunks(MAX_MCU_HEIGHT * byte_width) that
\* starts at row start, of n rows in all
ScanChunkRows(n, start) == Min(MAX_MCU_HEIGHT, n - start)

\* the loop over the chunks takes the next chunk and points at its first row
write_scanlines_chunk ==
    /\ cpc = "write_scanlines"
    /\ chunk_start < scan_rows
    /\ chunk_len' = ScanChunkRows(scan_rows, chunk_start)
    /\ rows_left' = ScanChunkRows(scan_rows, chunk_start)
    /\ row_pointers' = chunk_start
    /\ cpc' = "jpeg_write_scanlines"
    /\ UNCHANGED <<decompressVars, sourceVars, memVars>>
    /\ UNCHANGED <<commonVars, cinfo, px_sizes, image_src, start_row, row_ptrs, rows_written,
                   cret, engine_start_calls, scan_rows, chunk_start, accepted>>

\* the row counts ffi::jpeg_write_scanlines may return when offered n rows: none
\* past the image height, and fewer than offered when it cannot take them all
ScanlinesAccepted(n) ==
    LET room == Min(n, cinfo.image_height - cinfo.next_scanline)
    IN  IF room <= 0 THEN {0} ELSE {0, 1, room}

\* write_scanlines leaving row_pointers where it was
AdvanceRowPointersNot(p, r) == p

\* row_pointers.add(rows_written)
AdvanceRowPointers(p, r) == p + r

\* write_scanlines giving up when the engine took only a part of the rows
AfterScanlinesWrittenAll(r, left) == r < left

\* write_scanlines returns false after the engine's answer r to an offer of
\* left rows: only when r is 0
AfterScanlinesWritten(r, left) == r = 0

\* one iteration of the inner loop: ffi::jpeg_write_scanlines is offered the
\* rows_left rows at row_pointers
jpeg_write_scanlines ==
    /\ cpc = "jpeg_write_scanlines"
    /\ rows_left > 0
    /\ resumed' = (resumed \/ fatal)
    /\ \/ /\ cinfo.global_state = "CSTATE_SCANNING"
          /\ \E r \in ScanlinesAccepted(rows_left) :
                /\ rows_written' = r
                /\ cinfo' = [cinfo EXCEPT !.next_scanline = @ + r]
                /\ accepted' = accepted + r
                /\ IF AfterScanlinesWritten(r, rows_left)
                   THEN /\ cret' = "false"
                        /\ cpc' = "ready"
                        /\ UNCHANGED <<rows_left, row_pointers, chunk_start>>
                   ELSE /\ rows_left' = rows_left - r
                        /\ row_pointers' = AdvanceRowPointers(row_pointers, r)
                        /\ IF rows_left - r > 0
                           THEN UNCHANGED <<cpc, chunk_start>>
                           ELSE /\ cpc' = "write_scanlines"
                                /\ chunk_start' = chunk_start + chunk_len
                        /\ UNCHANGED cret
          /\ UNCHANGED fatal
       \/ /\ fatal' = TRUE
          /\ cpc' = ErrorExit(policy, cpc)
          /\ UNCHANGED <<cinfo, rows_written, cret, rows_left, row_pointers, chunk_start,
                         accepted>>
    /\ UNCHANGED <<decompressVars, sourceVars, memVars>>
    /\ UNCHANGED <<session, policy, panic_msg, px_sizes, image_src, start_row, row_ptrs,
                   engine_start_calls, scan_rows, chunk_len>>

\* the loop over the chunks ends: write_scanlines returns true
write_scanlines_done ==
    /\ cpc = "write_scanlines"
    /\ ~(chunk_start < scan_rows)
    /\ cret' = "true"
    /\ cpc' = "ready"
    /\ UNCHANGED <<decompressVars, sourceVars, memVars>>
    /\ UNCHANGED <<commonVars, cinfo, px_sizes, image_src, start_row, row_ptrs, rows_written,
                   engine_start_calls, scanVars>>

\* ------------------------------------------------------------------------
\* Compress session: the in-memory destination
\* ------------------------------------------------------------------------
\* libc free of allocation buf
Free(h, buf) == [h EXCEPT ![buf] = @ + 1]

\* free_mem_dest that leaves outbuffer and outsize as they were
FreeMemDestKeeps(buf, size, h) ==
    IF buf # NULL
    THEN [outbuffer |-> buf, outsize |-> size, heap |-> Free(h, buf)]
    ELSE [outbuffer |-> buf, outsize |-> size, heap |-> h]

\* Compress::free_mem_dest: a non-null outbuffer is freed, then nulled with
\* outsize 0; the fields and the heap afterwards
free_mem_dest(buf, size, h) ==
    IF buf # NULL
    THEN [outbuffer |-> NULL, outsize |-> 0, heap |-> Free(h, buf)]
    ELSE [outbuffer |-> buf, outsize |-> size, heap |-> h]

\* slice::from_raw_parts(outbuffer, outsize) being read: whether the allocation
\* read had been freed
ReadsFreed(buf, h) == buf # NULL /\ h[buf] > 0

\* the calls of a Compress that nothing has torn down or unwound
Callable == session = "compress" /\ cpc = "ready"

\* Compress::set_mem_dest: free_mem_dest, then ffi::jpeg_mem_dest, which
\* allocates a buffer when handed none, or fails for lack of memory
set_mem_dest ==
    /\ Callable
    /\ Len(heap) < MaxAllocs
    /\ LET f == free_mem_dest(outbuffer, outsize, heap) IN
       /\ resumed' = (resumed \/ fatal)
       /\ \/ /\ IF f.outbuffer = NULL \/ f.outsize = 0
                THEN \E n \in 1..MaxOut :
                        /\ heap' = Append(f.heap, 0)
                        /\ outbuffer' = Len(f.heap) + 1
                        /\ outsize' = n
                ELSE /\ heap' = f.heap
                     /\ outbuffer' = f.outbuffer
                     /\ outsize' = f.outsize
             /\ UNCHANGED <<fatal, cpc>>
          \/ /\ heap' = f.heap
             /\ outbuffer' = f.outbuffer
             /\ outsize' = f.outsize
             /\ fatal' = TRUE
             /\ cpc' = ErrorExit(policy, cpc)
    /\ mcall' = "set_mem_dest"
    /\ mret' = "none"
    /\ UNCHANGED <<decompressVars, sourceVars, scanVars>>
    /\ UNCHANGED <<session, policy, panic_msg, cinfo, px_sizes, image_src, start_row,
                   row_ptrs, rows_written, cret, engine_start_calls, read_freed>>

\* Compress::data_as_mut_slice
data_as_mut_slice ==
    /\ Callable
    /\ mcall' = "data_as_mut_slice"
    /\ IF outbuffer = NULL \/ 0 = outsize
       THEN /\ mret' = "Err"
            /\ UNCHANGED read_freed
       ELSE /\ mret' = "Ok"
            /\ read_freed' = (read_freed \/ ReadsFreed(outbuffer, heap))
    /\ UNCHANGED <<decompressVars, sourceVars, scanVars>>
    /\ UNCHANGED <<commonVars, cinfo, px_sizes, cpc, image_src, start_row, row_ptrs,
                   rows_written, cret, engine_start_calls, outbuffer, outsize, heap>>

\* Compress::data_to_vec; reserved is whether try_reserve succeeded
data_to_vec ==
    /\ Callable
    /\ mcall' = "data_to_vec"
    /\ IF outbuffer = NULL \/ 0 = outsize
       THEN /\ mret' = "Err"
            /\ UNCHANGED <<outbuffer, outsize, heap, read_freed>>
       ELSE \E reserved \in BOOLEAN :
              LET f == free_mem_dest(outbuffer, outsize, heap) IN
              /\ read_freed' = (read_freed \/ (reserved /\ ReadsFreed(outbuffer, heap)))
              /\ outbuffer' = f.outbuffer
              /\ outsize' = f.outsize
              /\ heap' = f.heap
              /\ mret' = IF reserved THEN "Ok" ELSE "Err"
    /\ UNCHANGED <<decompressVars, sourceVars, scanVars>>
    /\ UNCHANGED <<commonVars, cinfo, px_sizes, cpc, image_src, start_row, row_ptrs,
                   rows_written, cret, engine_start_calls>>

\* Drop for Compress: free_mem_dest, then ffi::jpeg_destroy_compress; it runs
\* when the value goes out of scope, also while a panic unwinds
compress_drop ==
    /\ session = "compress"
    /\ cpc \in {"ready", "panicked", "unwound"}
    /\ LET f == free_mem_dest(outbuffer, outsize, heap) IN
       /\ outbuffer' = f.outbuffer
       /\ outsize' = f.outsize
       /\ heap' = f.heap
    /\ mcall' = "drop"
    /\ mret' = "none"
    /\ cpc' = "dropped"
    /\ UNCHANGED <<decompressVars, sourceVars, scanVars>>
    /\ UNCHANGED <<commonVars, cinfo, px_sizes, image_src, start_row, row_ptrs,
                   rows_written, cret, engine_start_calls, read_freed>>

\* ------------------------------------------------------------------------
\* Streaming source adapter (spec 4.4; readsrc.rs is not among the sources)
\* ------------------------------------------------------------------------
\* the identity of the SourceMgr that set_src registers in cinfo.src
SRC == 1
\* the terminator the adapter synthesizes, which also ends a complete stream
EOI == 0
\* the header of a stream: one byte, a marker segment of SkipLen bytes that the
\* engine skips, one more byte; the engine consumes HeaderTakes of them
SkipLen == 2
HeaderTakes == 2

\* the image of tests/test.jpg: 45 by 30 pixels, 4:2:0
TestImage == [width |-> 45, height |-> 30, factors |-> <<<<2, 2>>, <<1, 1>>, <<1, 1>>>>]

\* an image whose luma is sampled three times as densely as its chroma
\* vertically: its iMCU rows have 24 lines
TallImage == [width |-> MaxSessionWidth, height |-> 1,
              factors |-> <<<<1, 3>>, <<1, 1>>, <<1, 1>>>>]

\* the images a stream may encode
DecImages ==
    { [width |-> MaxSessionWidth, height |-> h, factors |-> f] :
        h \in 1..MaxDecHeight,
        f \in { <<<<1, 1>>>>,
                <<<<1, 1>>, <<1, 1>>, <<1, 1>>>>,
                <<<<2, 2>>, <<1, 1>>, <<1, 1>>>> } }
    \cup {TestImage, TallImage}

\* rows of one iMCU row of an image: its largest vertical factor times the block size
ImageMcuHeight(img) ==
    MaxOver([i \in 1..Len(img.factors) |-> img.factors[i][2]], Len(img.factors)) * DCTSIZE

\* length of the complete stream of an image: the header, one byte for each
\* iMCU row, the end-of-image marker
StreamLen(img) == SkipLen + HeaderTakes + CeilDiv(img.height, ImageMcuHeight(img)) + 1

\* the byte at position i of the complete stream
StreamByte(i) == IF i = stream.len THEN EOI ELSE i

\* what the adapter puts in its buffer when the reader is at end-of-data and
\* the fill has produced nothing
FillAtEndNothing == <<>>
FillAtEnd == <<EOI>>

\* one pull of the fill loop: the bytes the reader yields next, at most cap of them
ReaderChunk == [i \in 1..Min(reader.cap, reader.len - reader.pos) |->
                   StreamByte(reader.pos + i)]

\* the engine's parse position, read off the bytes it has consumed
SawEOI == \E i \in 1..Len(taken) : taken[i] = EOI
DecMcuHeight == dinfo.max_v_samp_factor * DCTSIZE

\* the engine needs another byte before the call in progress can return
NeedsInput ==
    /\ ~SawEOI
    /\ CASE dpc = "read_header" -> Len(taken) < HeaderTakes
         [] dpc \in {"read_raw_data_chunk", "jpeg_read_scanlines"} ->
                Len(taken) < HeaderTakes + (dinfo.output_scanline \div DecMcuHeight) + 1
         [] dpc = "finish_decompress" -> TRUE
         [] OTHER -> FALSE

\* the engine is at the marker segment it skips
WantsSkip == dpc = "read_header" /\ Len(taken) = 1 /\ skips = 0 /\ ~SawEOI

\* fill-buffer, one pull: bytes from the reader, nothing yet (the loop pulls
\* again), or the terminator at end-of-data
fill_input_buffer ==
    /\ session = "decompress"
    /\ srcmgr.state = "Active"
    /\ srcmgr.buf = <<>>
    /\ dpc = "set_src" \/ skip_left > 0 \/ (NeedsInput /\ ~WantsSkip)
    /\ \/ /\ reader.transient_left > 0
          /\ reader' = [reader EXCEPT !.transient_left = @ - 1]
          /\ UNCHANGED srcmgr
       \/ /\ reader.pos < reader.len
          /\ srcmgr' = [srcmgr EXCEPT !.buf = ReaderChunk]
          /\ reader' = [reader EXCEPT !.pos = @ + Len(ReaderChunk)]
       \/ /\ reader.pos = reader.len
          /\ srcmgr' = [srcmgr EXCEPT !.buf = FillAtEnd]
          /\ UNCHANGED reader
    /\ resumed' = (resumed \/ fatal)
    /\ UNCHANGED <<session, policy, fatal, panic_msg, compressVars, decompressVars,
                   stream, taken, skip_left, skips, released>>

\* skip-bytes forgetting what the buffer did not hold
SkipBufferedOnly(buf, n) ==
    [buf |-> SubSeq(buf, Min(n, Len(buf)) + 1, Len(buf)), left |-> 0]

\* skip-bytes on the buffered region: the buffer that remains, and how many
\* bytes are still to be discarded from the reader
SkipBuffered(buf, n) ==
    [buf |-> SubSeq(buf, Min(n, Len(buf)) + 1, Len(buf)), left |-> n - Min(n, Len(buf))]

\* the engine asks to skip the marker segment
skip_input_bytes ==
    /\ session = "decompress"
    /\ srcmgr.state = "Active"
    /\ WantsSkip
    /\ skips' = skips + 1
    /\ srcmgr' = [srcmgr EXCEPT !.buf = SkipBuffered(srcmgr.buf, SkipLen).buf]
    /\ skip_left' = SkipBuffered(srcmgr.buf, SkipLen).left
    /\ resumed' = (resumed \/ fatal)
    /\ UNCHANGED <<session, policy, fatal, panic_msg, compressVars, decompressVars,
                   stream, reader, taken, released>>

\* skip-bytes goes on discarding once the buffer was refilled
skip_input_bytes_rest ==
    /\ session = "decompress"
    /\ srcmgr.state = "Active"
    /\ skip_left > 0
    /\ srcmgr.buf # <<>>
    /\ srcmgr' = [srcmgr EXCEPT !.buf = SkipBuffered(srcmgr.buf, skip_left).buf]
    /\ skip_left' = SkipBuffered(srcmgr.buf, skip_left).left
    /\ resumed' = (resumed \/ fatal)
    /\ UNCHANGED <<session, policy, fatal, panic_msg, compressVars, decompressVars,
                   stream, reader, taken, skips, released>>

\* the engine consumes the next byte of the buffer
engine_take ==
    /\ session = "decompress"
    /\ srcmgr.state = "Active"
    /\ NeedsInput /\ ~WantsSkip /\ skip_left = 0
    /\ srcmgr.buf # <<>>
    /\ taken' = Append(taken, Head(srcmgr.buf))
    /\ srcmgr' = [srcmgr EXCEPT !.buf = Tail(@)]
    /\ resumed' = (resumed \/ fatal)
    /\ UNCHANGED <<session, policy, fatal, panic_msg, compressVars, decompressVars,
                   stream, reader, skip_left, skips, released>>

\* terminate: releases the buffer and the reader and clears cinfo.src; a no-op
\* when already terminated
TermSrcmgr(sm) == IF sm.state = "Active" THEN [state |-> "Terminated", buf |-> <<>>] ELSE sm
TermReleased(sm, n) == IF sm.state = "Active" THEN n + 1 ELSE n
TermSrc(sm, src) == IF sm.state = "Active" THEN NULL ELSE src

\* ------------------------------------------------------------------------
\* Decompress session
\* ------------------------------------------------------------------------
\* a decompress session holds no compress state
NoCompress ==
    /\ cinfo = [image_width |-> 0, image_height |-> 0, comp_info |-> <<>>,
                max_h_samp_factor |-> 0, max_v_samp_factor |-> 0,
                raw_data_in |-> FALSE, next_scanline |-> 0, global_state |-> "none"]
    /\ px_sizes = <<>>
    /\ cpc = "none"
    /\ image_src = <<>>
    /\ start_row = 0
    /\ row_ptrs = NoRows
    /\ rows_written = -1
    /\ cret = "none"
    /\ engine_start_calls = 0
    /\ NoScan
    /\ NoMem

\* Decompress::new_err, with the reader from_reader is given: a stream encoding
\* img of which the reader holds the first n bytes and yields cap at a time
DecompressNewErr(p, img, n, cap) ==
    /\ session = "decompress"
    /\ policy = p
    /\ fatal = FALSE
    /\ resumed = FALSE
    /\ panic_msg = ""
    /\ dinfo = [src |-> NULL, image_width |-> 0, image_height |-> 0, comp_info |-> <<>>,
                max_h_samp_factor |-> 0, max_v_samp_factor |-> 0, raw_data_out |-> FALSE,
                output_width |-> 0, output_height |-> 0, output_scanline |-> 0]
    /\ own_src = NULL
    /\ dpc = "created"
    /\ image_dest = <<>>
    /\ dest_row_ptrs = NoRows
    /\ lines_read = -1
    /\ rows_read = -1
    /\ dret = "none"
    /\ bitmap_len = 0
    /\ stream = [image |-> img, len |-> StreamLen(img)]
    /\ reader = [len |-> n, pos |-> 0, cap |-> cap, transient_left |-> MaxTransient]
    /\ srcmgr = [state |-> "Uninitialized", buf |-> <<>>]
    /\ taken = <<>>
    /\ skip_left = 0
    /\ skips = 0
    /\ released = 0
    /\ drop_term = <<>>
    /\ NoCompress

\* Decompress::components
dcomponents == dinfo.comp_info

\* from_reader, SourceMgr::set_src: the adapter registers itself and starts its
\* priming fill
set_src ==
    /\ session = "decompress"
    /\ dpc = "created"
    /\ srcmgr' = [state |-> "Active", buf |-> <<>>]
    /\ dinfo' = [dinfo EXCEPT !.src = SRC]
    /\ dpc' = "set_src"
    /\ UNCHANGED <<commonVars, compressVars, own_src, image_dest, dest_row_ptrs, lines_read,
                   rows_read, dret, bitmap_len, drop_term, stream, reader, taken,
                   skip_left, skips, released>>

\* from_reader: set_src has returned; own_src is recorded and read_header called
from_reader ==
    /\ session = "decompress"
    /\ dpc = "set_src"
    /\ srcmgr.buf # <<>>
    /\ own_src' = dinfo.src
    /\ dpc' = "read_header"
    /\ UNCHANGED <<commonVars, compressVars, dinfo, image_dest, dest_row_ptrs, lines_read,
                   rows_read, dret, bitmap_len, drop_term, sourceVars>>

\* the fields jpeg_read_header fills in from the header of the stream
HeaderFields(d, img) ==
    LET n  == Len(img.factors)
        mh == MaxOver([i \in 1..n |-> img.factors[i][1]], n)
        mv == MaxOver([i \in 1..n |-> img.factors[i][2]], n)
    IN  [d EXCEPT
            !.image_width = img.width,
            !.image_height = img.height,
            !.max_h_samp_factor = mh,
            !.max_v_samp_factor = mv,
            !.comp_info = [i \in 1..n |->
                [h_samp_factor |-> img.factors[i][1],
                 v_samp_factor |-> img.factors[i][2],
                 width_in_blocks |-> WidthInBlocks(img.width, img.factors[i][1], mh),
                 height_in_blocks |-> HeightInBlocks(img.height, img.factors[i][2], mv)]]]

\* the header bytes of the stream as the engine must receive them
HeaderBytes == <<StreamByte(1), StreamByte(SkipLen + HeaderTakes)>>

\* Decompress::read_header: ffi::jpeg_read_header returns
read_header ==
    /\ session = "decompress"
    /\ dpc = "read_header"
    /\ ~NeedsInput /\ ~WantsSkip /\ skip_left = 0
    /\ resumed' = (resumed \/ fatal)
    /\ \/ /\ taken = HeaderBytes
          /\ dinfo' = HeaderFields(dinfo, stream.image)
          /\ dpc' = "header"
          /\ UNCHANGED fatal
       \/ /\ SawEOI
          /\ dpc' = "failed"
          /\ UNCHANGED <<dinfo, fatal>>
       \/ /\ taken # HeaderBytes
          /\ fatal' = TRUE
          /\ dpc' = ErrorExit(policy, dpc)
          /\ UNCHANGED dinfo
    /\ UNCHANGED <<session, policy, panic_msg, compressVars, own_src, image_dest,
                   dest_row_ptrs, lines_read, rows_read, dret, bitmap_len, drop_term,
                   sourceVars>>

\* DecompressStarted::start_decompress, after set_raw_data_out(raw_out) when
\* entered through Decompress::raw
start_decompress(raw_out) ==
    /\ session = "decompress"
    /\ dpc = "header"
    /\ resumed' = (resumed \/ fatal)
    /\ \/ /\ dinfo' = [dinfo EXCEPT !.raw_data_out = raw_out,
                                    !.output_width = dinfo.image_width,
                                    !.output_height = dinfo.image_height]
          /\ dpc' = "started"
          /\ UNCHANGED fatal
       \/ /\ dinfo' = [dinfo EXCEPT !.raw_data_out = raw_out]
          /\ fatal' = TRUE
          /\ dpc' = ErrorExit(policy, dpc)
    /\ UNCHANGED <<session, policy, panic_msg, compressVars, own_src, image_dest,
                   dest_row_ptrs, lines_read, rows_read, dret, bitmap_len, drop_term,
                   sourceVars>>

\* Decompress::raw
raw == start_decompress(TRUE)

\* Decompress::image
image == start_decompress(FALSE)

\* DecompressStarted::read_more_chunks
read_more_chunks == dinfo.output_scanline < dinfo.output_height

\* DecompressStarted::read_raw_data is entered with the caller's buffers
read_raw_data(dest) ==
    /\ session = "decompress"
    /\ dpc = "started"
    /\ dret = "none"
    /\ image_dest' = dest
    /\ dpc' = "read_raw_data"
    /\ UNCHANGED <<commonVars, compressVars, dinfo, own_src, dest_row_ptrs, lines_read,
                   rows_read, dret, bitmap_len, drop_term, sourceVars>>

\* the checks of read_raw_data_chunk: the panic message, "" when they pass
ReadRawDataCheck(dest) ==
    IF ~dinfo.raw_data_out THEN "Raw data not set"
    ELSE IF DecMcuHeight > MAX_MCU_HEIGHT THEN "Subsampling factor too large"
    ELSE IF Len(dcomponents) > MAX_COMPONENTS \/ Len(dcomponents) > Len(dest)
         THEN "Too many components"
    ELSE ""

\* the rows one chunk adds to a component's buffer
DecCompHeight(comp) == comp.v_samp_factor * DCTSIZE

\* the buffers after every component's was extended by a whole iMCU row
GrowDestMcu(dest) ==
    [ci \in 1..Len(dest) |->
        IF ci <= Len(dcomponents)
        THEN dest[ci] + DecMcuHeight * row_stride(dcomponents[ci])
        ELSE dest[ci]]

\* the buffers after each component's was extended by comp_height rows
GrowDest(dest) ==
    [ci \in 1..Len(dest) |->
        IF ci <= Len(dcomponents)
        THEN dest[ci] + DecCompHeight(dcomponents[ci]) * row_stride(dcomponents[ci])
        ELSE dest[ci]]

\* the row pointers of a chunk with the null slots ahead of the rows
BuildDestRowPtrsHead(dest) ==
    [ci \in 1..MAX_COMPONENTS |->
        [ri \in 1..MAX_MCU_HEIGHT |->
            IF /\ ci <= Len(dcomponents)
               /\ ri > DecMcuHeight - DecCompHeight(dcomponents[ci])
               /\ ri <= DecMcuHeight
            THEN dest[ci] + (ri - 1 - (DecMcuHeight - DecCompHeight(dcomponents[ci])))
                              * row_stride(dcomponents[ci])
            ELSE NULL]]

\* the row pointers of a chunk: into the newly grown region, null past comp_height
BuildDestRowPtrs(dest) ==
    [ci \in 1..MAX_COMPONENTS |->
        [ri \in 1..MAX_MCU_HEIGHT |->
            IF ci <= Len(dcomponents) /\ ri <= DecCompHeight(dcomponents[ci])
            THEN dest[ci] + (ri - 1) * row_stride(dcomponents[ci])
            ELSE NULL]]

\* read_raw_data_chunk up to the call of ffi::jpeg_read_raw_data
read_raw_data_chunk ==
    /\ session = "decompress"
    /\ dpc = "read_raw_data"
    /\ read_more_chunks
    /\ IF ReadRawDataCheck(image_dest) # ""
       THEN /\ dpc' = "panicked"
            /\ panic_msg' = ReadRawDataCheck(image_dest)
            /\ UNCHANGED <<image_dest, dest_row_ptrs>>
       ELSE /\ image_dest' = GrowDest(image_dest)
            /\ dest_row_ptrs' = BuildDestRowPtrs(image_dest)
            /\ dpc' = "read_raw_data_chunk"
            /\ UNCHANGED panic_msg
    /\ UNCHANGED <<session, policy, fatal, resumed, compressVars, dinfo, own_src,
                   lines_read, rows_read, dret, bitmap_len, drop_term, sourceVars>>

\* the row counts the engine's read-rows call may return for a batch of n rows
LinesRead(n) == {0, n} \cup ({DCTSIZE} \cap 0..n)

\* the assertion after the engine call, tolerating a partial batch
AfterLinesReadPartial(lines, mcu_height) ==
    IF lines > 0 THEN "" ELSE "assertion failed: lines_read == mcu_height"

\* assert_eq!(lines_read, mcu_height): the panic message, "" when it passes
AfterLinesRead(lines, mcu_height) ==
    IF lines = mcu_height THEN "" ELSE "assertion failed: lines_read == mcu_height"

\* ffi::jpeg_read_raw_data returns, and the rest of read_raw_data_chunk
jpeg_read_raw_data ==
    /\ session = "decompress"
    /\ dpc = "read_raw_data_chunk"
    /\ ~NeedsInput
    /\ resumed' = (resumed \/ fatal)
    /\ \/ \E lines \in LinesRead(DecMcuHeight) :
            /\ lines_read' = lines
            /\ dinfo' = [dinfo EXCEPT !.output_scanline = @ + lines]
            /\ IF AfterLinesRead(lines, DecMcuHeight) # ""
               THEN /\ dpc' = "panicked"
                    /\ panic_msg' = AfterLinesRead(lines, DecMcuHeight)
               ELSE /\ dpc' = "read_raw_data"
                    /\ UNCHANGED panic_msg
            /\ UNCHANGED fatal
       \/ /\ fatal' = TRUE
          /\ dpc' = ErrorExit(policy, dpc)
          /\ UNCHANGED <<dinfo, lines_read, panic_msg>>
    /\ UNCHANGED <<session, policy, compressVars, own_src, image_dest, dest_row_ptrs,
                   rows_read, dret, bitmap_len, drop_term, sourceVars>>

\* read_raw_data's loop ends
read_raw_data_done ==
    /\ session = "decompress"
    /\ dpc = "read_raw_data"
    /\ ~read_more_chunks
    /\ dret' = "ok"
    /\ dpc' = "started"
    /\ UNCHANGED <<commonVars, compressVars, dinfo, own_src, image_dest, dest_row_ptrs,
                   lines_read, rows_read, bitmap_len, drop_term, sourceVars>>

\* DecompressStarted::read_scanlines allocates the bitmap and enters read_scanlines_into
read_scanlines ==
    /\ session = "decompress"
    /\ dpc = "started"
    /\ dret = "none"
    /\ bitmap_len' = dinfo.output_height * dinfo.output_width
    /\ dpc' = "read_scanlines_into"
    /\ UNCHANGED <<commonVars, compressVars, dinfo, own_src, image_dest, dest_row_ptrs,
                   lines_read, rows_read, dret, drop_term, sourceVars>>

\* read_scanlines_into: the loop calls ffi::jpeg_read_scanlines for one row
read_scanlines_into ==
    /\ session = "decompress"
    /\ dpc = "read_scanlines_into"
    /\ read_more_chunks
    /\ dpc' = "jpeg_read_scanlines"
    /\ UNCHANGED <<commonVars, compressVars, dinfo, own_src, image_dest, dest_row_ptrs,
                   lines_read, rows_read, dret, bitmap_len, drop_term, sourceVars>>

\* ffi::jpeg_read_scanlines returns: one row, no row, or a fatal error (always
\* one in raw mode, where the engine refuses the call)
jpeg_read_scanlines ==
    /\ session = "decompress"
    /\ dpc = "jpeg_read_scanlines"
    /\ ~NeedsInput
    /\ resumed' = (resumed \/ fatal)
    /\ \/ /\ ~dinfo.raw_data_out
          /\ \E rows \in {0, 1} :
                /\ rows_read' = rows
                /\ dinfo' = [dinfo EXCEPT !.output_scanline = @ + rows]
                /\ IF rows = 0
                   THEN dret' = "None" /\ dpc' = "started"
                   ELSE dpc' = "read_scanlines_into" /\ UNCHANGED dret
          /\ UNCHANGED fatal
       \/ /\ fatal' = TRUE
          /\ dpc' = ErrorExit(policy, dpc)
          /\ UNCHANGED <<dinfo, rows_read, dret>>
    /\ UNCHANGED <<session, policy, panic_msg, compressVars, own_src, image_dest,
                   dest_row_ptrs, lines_read, bitmap_len, drop_term, sourceVars>>

\* read_scanlines_into's loop ends; read_scanlines returns the bitmap
read_scanlines_done ==
    /\ session = "decompress"
    /\ dpc = "read_scanlines_into"
    /\ ~read_more_chunks
    /\ dret' = "Some"
    /\ dpc' = "started"
    /\ UNCHANGED <<commonVars, compressVars, dinfo, own_src, image_dest, dest_row_ptrs,
                   lines_read, rows_read, bitmap_len, drop_term, sourceVars>>

\* DecompressStarted::finish_decompress calls ffi::jpeg_finish_decompress, which
\* refuses an image not read to its last row
finish_decompress ==
    /\ session = "decompress"
    /\ dpc = "started"
    /\ resumed' = (resumed \/ fatal)
    /\ IF read_more_chunks
       THEN fatal' = TRUE /\ dpc' = ErrorExit(policy, dpc)
       ELSE dpc' = "finish_decompress" /\ UNCHANGED fatal
    /\ UNCHANGED <<session, policy, panic_msg, compressVars, dinfo, own_src, image_dest,
                   dest_row_ptrs, lines_read, rows_read, dret, bitmap_len, drop_term,
                   sourceVars>>

\* ffi::jpeg_finish_decompress has read to the end of the image: it calls
\* term_source and returns
jpeg_finish_decompress ==
    /\ session = "decompress"
    /\ dpc = "finish_decompress"
    /\ ~NeedsInput
    /\ resumed' = (resumed \/ fatal)
    /\ srcmgr' = TermSrcmgr(srcmgr)
    /\ released' = TermReleased(srcmgr, released)
    /\ dinfo' = [dinfo EXCEPT !.src = TermSrc(srcmgr, dinfo.src)]
    /\ dpc' = "finished"
    /\ UNCHANGED <<session, policy, fatal, panic_msg, compressVars, own_src, image_dest,
                   dest_row_ptrs, lines_read, rows_read, dret, bitmap_len, drop_term,
                   stream, reader, taken, skip_left, skips>>

\* the positions at which the session object goes out of scope: the caller lets
\* go of it, an Err or a panic unwinds past it, or finish_decompress consumed it
Droppable == {"header", "started", "failed", "panicked", "unwound", "finished"}

\* the teardown path never invoking terminate
DropNeverTerminates(src, own) == FALSE

\* Drop for Decompress: terminate is invoked only on our own, still registered
\* source manager
DropCallsTerminate(src, own) == src # NULL /\ src = own

\* Drop for Decompress
drop ==
    /\ session = "decompress"
    /\ dpc \in Droppable
    /\ IF DropCallsTerminate(dinfo.src, own_src)
       THEN /\ srcmgr' = TermSrcmgr(srcmgr)
            /\ released' = TermReleased(srcmgr, released)
            /\ dinfo' = [dinfo EXCEPT !.src = TermSrc(srcmgr, dinfo.src)]
            /\ drop_term' = <<dinfo.src, own_src>>
       ELSE UNCHANGED <<srcmgr, released, dinfo, drop_term>>
    /\ dpc' = "dropped"
    /\ UNCHANGED <<commonVars, compressVars, own_src, image_dest, dest_row_ptrs, lines_read,
                   rows_read, dret, bitmap_len, stream, reader, taken, skip_left, skips>>

\* ------------------------------------------------------------------------
\* Specifications
\* ------------------------------------------------------------------------
PxSizes == (1..MaxPx) \X (1..MaxPx)
\* a chroma pixel three luma pixels wide: the division by another width rounds
WidePx == <<3, 1>>
CfgPxSizes == PxSizes \cup {WidePx}

\* the chroma pixel sizes the documentation of set_chroma_sampling_pixel_sizes
\* names: 4:4:4, 4:2:2 and 4:2:0
Subsamplings == {<<1, 1>>, <<2, 1>>, <<2, 2>>}

\* chroma pixels three luma rows high: max_v_samp_factor becomes 3
TallPx == <<1, 3>>

InitCompress == \E p \in Policies, cs \in ColorSpaces : new_err(p, cs)

\* configuration and start only, every component writable through components_mut
NextConfigure ==
    \/ set_size(MaxSessionWidth, MaxSessionHeight)
    \/ \E cb \in CfgPxSizes, cr \in CfgPxSizes : set_chroma_sampling_pixel_sizes(cb, cr)
    \/ \E ci \in 1..MAX_COMPONENTS, h \in 1..MaxSamp, v \in 1..MaxSamp :
          components_mut(ci, h, v)
    \/ start_compress

SpecConfigure == InitCompress /\ [][NextConfigure]_vars

\* configuration and start only, over every image size up to MaxWidth x MaxHeight;
\* each setter is called once
NextGeometry ==
    \/ /\ cinfo.image_width = 0
       /\ \E w \in 1..MaxWidth, h \in 1..MaxHeight : set_size(w, h)
    \/ /\ px_sizes = <<>>
       /\ \E cb \in PxSizes, cr \in PxSizes : set_chroma_sampling_pixel_sizes(cb, cr)
    \/ start_compress

SpecGeometry == InitCompress /\ [][NextGeometry]_vars

\* a whole compress session in raw mode
NextCompress ==
    \/ \E h \in 1..MaxSessionHeight : set_size(MaxSessionWidth, h)
    \/ \E opt \in BOOLEAN : set_raw_data_in(opt)
    \/ \E cb \in Subsamplings, cr \in Subsamplings :
          set_chroma_sampling_pixel_sizes(cb, cr)
    \/ set_chroma_sampling_pixel_sizes(TallPx, TallPx)
    \/ start_compress
    \/ \E src \in SrcBuffers : write_raw_data(src)
    \/ write_raw_data_batch
    \/ write_raw_data_done

SpecCompress == InitCompress /\ [][NextCompress]_vars

\* the engine took the whole batch or nothing
WholeBatch ==
    rows_written' \in {-1, 0, cinfo.max_v_samp_factor * DCTSIZE}

\* a raw-mode session with an engine that accepts 0 or mcu_height rows per call
NextWhole ==
    \/ \E h \in 1..MaxSessionHeight : set_size(MaxSessionWidth, h)
    \/ \E opt \in BOOLEAN : set_raw_data_in(opt)
    \/ \E cb \in Subsamplings, cr \in Subsamplings :
          set_chroma_sampling_pixel_sizes(cb, cr)
    \/ start_compress
    \/ \E src \in SrcBuffers : write_raw_data(src)
    \/ write_raw_data_batch /\ WholeBatch
    \/ write_raw_data_done

SpecWhole == InitCompress /\ [][NextWhole]_vars

\* the in-memory destination of a Compress and its teardown, in any order
NextMemDest ==
    \/ set_mem_dest
    \/ data_as_mut_slice
    \/ data_to_vec
    \/ compress_drop

SpecMemDest == InitCompress /\ [][NextMemDest]_vars

\* a whole compress session in either mode, for an image of one size with and
\* without subsampled chroma, the caller handing write_scanlines up to
\* MaxScanRows rows at a time
NextWrite ==
    \/ set_size(MaxSessionWidth, MaxSessionHeight)
    \/ \E opt \in BOOLEAN : set_raw_data_in(opt)
    \/ \E px \in {<<1, 1>>, <<2, 2>>} : set_chroma_sampling_pixel_sizes(px, px)
    \/ start_compress
    \/ \E n \in 1..MaxScanRows : write_scanlines(n)
    \/ write_scanlines_chunk
    \/ jpeg_write_scanlines
    \/ write_scanlines_done
    \/ \E src \in SrcBuffers : write_raw_data(src)
    \/ write_raw_data_batch
    \/ write_raw_data_done

SpecWrite == InitCompress /\ [][NextWrite]_vars

\* a decompress session over every image, every truncation of its stream and
\* every fragmentation of the reader
Caps(img) == (1..MaxCap) \cup {StreamLen(img)}
InitDecompress ==
    \E p \in Policies, img \in DecImages :
        \E n \in 0..StreamLen(img), cap \in Caps(img) : DecompressNewErr(p, img, n, cap)

DestBuffers == {[i \in 1..nb |-> 0] : nb \in 0..MAX_COMPONENTS}

EngineInput ==
    \/ fill_input_buffer
    \/ skip_input_bytes
    \/ skip_input_bytes_rest
    \/ engine_take

EngineReturns ==
    \/ read_header
    \/ jpeg_read_raw_data
    \/ jpeg_read_scanlines
    \/ jpeg_finish_decompress

NextDecompress ==
    \/ set_src
    \/ from_reader
    \/ EngineInput
    \/ EngineReturns
    \/ raw
    \/ image
    \/ \E dest \in DestBuffers : read_raw_data(dest)
    \/ read_raw_data_chunk
    \/ read_raw_data_done
    \/ read_scanlines
    \/ read_scanlines_into
    \/ read_scanlines_done
    \/ finish_decompress
    \/ drop

SpecDecompress == InitDecompress /\ [][NextDecompress]_vars

\* the engine and the adapter go on with the call in progress, and the wrapper's
\* loops go on to their next step: the session runs on the calling thread
ReadLoop ==
    \/ from_reader
    \/ read_scanlines_into
    \/ read_scanlines_done

SpecDecompressFair ==
    /\ InitDecompress
    /\ [][NextDecompress]_vars
    /\ WF_vars(EngineInput)
    /\ WF_vars(EngineReturns)
    /\ WF_vars(ReadLoop)

\* a session of either kind
Init == InitCompress \/ InitDecompress
Next == NextCompress \/ NextDecompress
Spec == Init /\ [][Next]_vars

\* ------------------------------------------------------------------------
\* Claims
\* ------------------------------------------------------------------------
AnyH1 == \E i \in 1..Len(components) : components[i].h_samp_factor = 1
AnyV1 == \E i \in 1..Len(components) : components[i].v_samp_factor = 1
StartPanicked == panic_msg \in {"at least one h_samp_factor must be 1",
                                "at least one v_samp_factor must be 1"}

\* C1: once start_compress has run, the engine's start call was invoked exactly
\* when some component has h_samp_factor 1 and some component has v_samp_factor 1;
\* otherwise start_compress panicked on its precondition without invoking it.
C1_StartCompressPrecondition ==
    (StartPanicked \/ engine_start_calls > 0) =>
        /\ (AnyH1 /\ AnyV1) <=> (engine_start_calls > 0)
        /\ ~(AnyH1 /\ AnyV1) <=> (StartPanicked /\ cpc = "panicked" /\ engine_start_calls = 0)

\* start_compress failed on a configuration with an h factor of 1 but no v factor of 1
C1_Witness ==
    /\ panic_msg = "at least one v_samp_factor must be 1"
    /\ AnyH1 /\ ~AnyV1
    /\ engine_start_calls = 0

\* C2: write_raw_data returns true only when next_scanline has reached image_height,
\* and as soon as the engine accepts zero rows the call has returned false and is
\* no longer in its loop, so it makes no further engine call.
C2_WriteRawDataResult ==
    /\ cret = "true" => cinfo.next_scanline >= cinfo.image_height
    /\ rows_written = 0 => (cret = "false" /\ cpc # "write_raw_data")

\* the engine accepted a batch and then zero rows while rows remained
C2_Witness ==
    /\ rows_written = 0
    /\ cret = "false"
    /\ cinfo.next_scanline > 0
    /\ cinfo.next_scanline < cinfo.image_height

Started == cinfo.global_state # "CSTATE_START"

\* s is x / (m * block size) rounded up to whole blocks, in samples
IsCeilStride(s, x, m) ==
    /\ s % DCTSIZE = 0
    /\ s * m >= x
    /\ (s - DCTSIZE) * m < x

Factors == [i \in 1..Len(components) |->
               <<components[i].h_samp_factor, components[i].v_samp_factor>>]
Strides == [i \in 1..Len(components) |->
               <<row_stride(components[i]), col_stride(components[i])>>]

\* C6: row_stride is ceil(w * h_samp / (max_h * 8)) * 8 and col_stride is
\* ceil(h * v_samp / (max_v * 8)) * 8; 45x30 with luma (2,2) and chroma (1,1) gives
\* 48/32 and 24/16, and 17x33 with the same factors gives 24/40 and 16/24.
C6_Strides ==
    Started =>
        /\ \A i \in 1..Len(components) :
              /\ IsCeilStride(row_stride(components[i]),
                              cinfo.image_width * components[i].h_samp_factor,
                              cinfo.max_h_samp_factor)
              /\ IsCeilStride(col_stride(components[i]),
                              cinfo.image_height * components[i].v_samp_factor,
                              cinfo.max_v_samp_factor)
        /\ (cinfo.image_width = 45 /\ cinfo.image_height = 30
              /\ Factors = <<<<2, 2>>, <<1, 1>>, <<1, 1>>>>)
              => Strides = <<<<48, 32>>, <<24, 16>>, <<24, 16>>>>
        /\ (cinfo.image_width = 17 /\ cinfo.image_height = 33
              /\ Factors = <<<<2, 2>>, <<1, 1>>, <<1, 1>>>>)
              => Strides = <<<<24, 40>>, <<16, 24>>, <<16, 24>>>>

\* the 45x30 image with luma (2,2) and chroma (1,1) was started
C6_Witness ==
    /\ Started
    /\ cinfo.image_width = 45 /\ cinfo.image_height = 30
    /\ Factors = <<<<2, 2>>, <<1, 1>>, <<1, 1>>>>
    /\ Strides[1] = <<48, 32>>

\* half of a luma stride, rounded up to a multiple of the block size
HalfToBlock(s) == ((s \div 2 + DCTSIZE - 1) \div DCTSIZE) * DCTSIZE

\* C7: with chroma pixel sizes (2,2) and (2,2), for every image size, each chroma
\* component's row_stride and col_stride are half of luma's rounded up to a
\* multiple of the block size.
C7_ChromaHalfOfLuma ==
    (Started /\ px_sizes = <<<<2, 2>>, <<2, 2>>>> /\ Len(components) >= 3) =>
        \A i \in 2..3 :
            /\ row_stride(components[i]) = HalfToBlock(row_stride(components[1]))
            /\ col_stride(components[i]) = HalfToBlock(col_stride(components[1]))

\* a 4:2:0 image whose luma has an odd number of block columns and rows
C7_Witness ==
    /\ Started /\ px_sizes = <<<<2, 2>>, <<2, 2>>>> /\ Len(components) = 3
    /\ cinfo.image_width = 17 /\ cinfo.image_height = 33
    /\ Strides = <<<<24, 40>>, <<16, 24>>, <<16, 24>>>>

\* ---- C3 ----------------------------------------------------------------
\* C3: whatever the lifecycle of a decompress session, its reader is released
\* exactly once: never twice, once the session is torn down exactly once, and
\* the teardown path invoked terminate only with a registered source pointer
\* that was non-null and equal to the session's own_src; when it did not, the
\* engine's terminate had released the reader before.
C3_ReaderReleasedOnce ==
    session = "decompress" =>
        /\ released <= 1
        /\ dpc = "dropped" => released = 1
        /\ drop_term # <<>> => (drop_term[1] # NULL /\ drop_term[1] = drop_term[2])
        /\ (dpc = "dropped" /\ drop_term = <<>>) => dret # "none" /\ ~read_more_chunks
        /\ released = 1 <=> srcmgr.state = "Terminated"
        /\ srcmgr.state = "Terminated" => dinfo.src = NULL

\* a session torn down mid-decode, its reader released by the teardown path
C3_Witness ==
    /\ dpc = "dropped"
    /\ released = 1
    /\ drop_term = <<SRC, SRC>>
    /\ dinfo.output_scanline > 0
    /\ dinfo.output_scanline < dinfo.output_height

\* ---- C4 ----------------------------------------------------------------
\* C4: when the engine's read-rows call of read_raw_data_chunk returned a row
\* count that is neither zero nor the full batch height, the collector has
\* panicked on its assertion and reads no further chunk.
C4_PartialBatchIsFatal ==
    (session = "decompress" /\ lines_read > 0 /\ lines_read # DecMcuHeight) =>
        /\ dpc \in {"panicked", "dropped"}
        /\ panic_msg = "assertion failed: lines_read == mcu_height"

\* a batch of 16 rows of which the engine returned 8
C4_Witness ==
    /\ lines_read = DCTSIZE
    /\ DecMcuHeight = MAX_MCU_HEIGHT
    /\ dpc = "panicked"
    /\ panic_msg = "assertion failed: lines_read == mcu_height"

\* ---- C5 ----------------------------------------------------------------
\* the rows a component's buffer holds
RowsCollected(ci) == image_dest[ci] \div row_stride(dcomponents[ci])

\* C5: during a read_raw_data loop that started from empty buffers, no
\* component has collected more rows than its col_stride, and when the loop has
\* ended each component's buffer holds exactly row_stride * col_stride bytes.
C5_CollectedWithinColStride ==
    (session = "decompress" /\ dcomponents # <<>> /\ Len(image_dest) >= Len(dcomponents)) =>
        \A ci \in 1..Len(dcomponents) :
            /\ RowsCollected(ci) <= col_stride(dcomponents[ci])
            /\ dret = "ok" =>
                   image_dest[ci] = row_stride(dcomponents[ci]) * col_stride(dcomponents[ci])

\* ---- C8 ----------------------------------------------------------------
Truncated == session = "decompress" /\ reader.len < stream.len

\* C8: with a reader that ends before the stream is complete, the header read
\* comes to an end (a header, an Err or a fatal error) and a read_scanlines in
\* progress returns (or ends in a fatal error): no call waits for input forever.
C8_TruncatedDecodeTerminates ==
    /\ (Truncated /\ dpc \in {"set_src", "read_header"})
           ~> (dpc \in {"header", "failed", "unwound", "aborted"})
    /\ (Truncated /\ dpc \in {"read_scanlines_into", "jpeg_read_scanlines"})
           ~> (dpc \in {"started", "unwound", "aborted"})

\* a truncated stream read to the reader's end, the engine handed the
\* synthesized terminator, and read_scanlines returned the bitmap
C8_Witness ==
    /\ Truncated
    /\ reader.pos = reader.len
    /\ SawEOI
    /\ srcmgr.state = "Active"
    /\ dret = "Some"

\* ---- C9 ----------------------------------------------------------------
\* position in the stream of the k-th byte the engine consumes
InputPos(k) == IF k = 1 THEN 1 ELSE k + SkipLen

\* the k-th byte the engine must receive: the stream's, or the terminator past
\* the reader's end
ExpectedInput(k) == IF InputPos(k) <= reader.len THEN StreamByte(InputPos(k)) ELSE EOI

HeaderRead == dpc \in {"header", "started", "read_raw_data", "read_raw_data_chunk",
                       "read_scanlines_into", "jpeg_read_scanlines", "finish_decompress",
                       "finished"}

\* C9: the bytes the engine has received are the stream's, whatever the size
\* of the reader's fragments; once the header is read the session has the
\* dimensions of the encoded image, and a bitmap read_scanlines returned has
\* width * height pixels.
C9_FragmentationIndependent ==
    session = "decompress" =>
        /\ \A k \in 1..Len(taken) : taken[k] = ExpectedInput(k)
        /\ HeaderRead => /\ dinfo.image_width = stream.image.width
                         /\ dinfo.image_height = stream.image.height
        /\ dret = "Some" => bitmap_len = stream.image.width * stream.image.height

\* the complete stream of the test image decoded through a reader yielding one
\* byte at a time: a bitmap of 45 * 30 pixels
C9_Witness ==
    /\ session = "decompress"
    /\ reader.cap = 1
    /\ reader.len = stream.len
    /\ stream.image = TestImage
    /\ dret = "Some"
    /\ bitmap_len = 45 * 30
    /\ dpc = "finished"
    /\ Len(taken) = stream.len - SkipLen

\* ---- C10 ---------------------------------------------------------------
\* C10: no engine operation of a session runs after the engine invoked the
\* fatal-error callback, under either policy: the session is unwound or the
\* process aborted, and no write-rows, read-rows, fill or skip follows.
C10_NeverResumed ==
    /\ ~resumed
    /\ fatal => (IF session = "compress" THEN cpc ELSE dpc) \in {"unwound", "aborted", "dropped"}

\* a fatal error raised under the abort policy in the middle of a raw write
C10_Witness ==
    /\ fatal
    /\ policy = "abort"
    /\ cpc = "aborted"
    /\ cinfo.next_scanline > 0

\* ---- C11 ---------------------------------------------------------------
\* write_raw_data went past its checks with the buffers image_src
RawWriteAccepted == session = "compress" /\ (cpc = "write_raw_data" \/ cret # "none")

\* C11 as stated: write_raw_data goes past its checks only with at most 4
\* buffers, as many as there are components.
C11_BufferCountMustMatch ==
    RawWriteAccepted =>
        /\ Len(image_src) <= MAX_COMPONENTS
        /\ Len(image_src) = Len(components)

\* C11, amended: write_raw_data rejects a call when there are more than 4
\* components or fewer buffers than components, and only then with the message
\* "Too many components"; buffers beyond the components are accepted and ignored.
C11_BufferCountAtLeast ==
    session = "compress" =>
        /\ RawWriteAccepted =>
              /\ Len(components) <= MAX_COMPONENTS
              /\ Len(image_src) >= Len(components)
        /\ (cpc = "panicked" /\ panic_msg = "Too many components") =>
              (Len(components) > MAX_COMPONENTS \/ Len(image_src) < Len(components))
        /\ (image_src # <<>> /\ Len(image_src) < Len(components)) => cpc = "panicked"

\* a call with five buffers for four components that wrote the whole image
C11_Witness ==
    /\ cret = "true"
    /\ Len(components) = MAX_COMPONENTS
    /\ Len(image_src) > MAX_COMPONENTS

\* ---- C12 ---------------------------------------------------------------
\* the configuration write_raw_data refuses, for the buffers image_src
CompressConfigViolation ==
    \/ ~cinfo.raw_data_in
    \/ cinfo.max_v_samp_factor * DCTSIZE > MAX_MCU_HEIGHT
    \/ Len(components) > MAX_COMPONENTS
    \/ Len(image_src) < Len(components)
    \/ \E ci \in 1..Len(components) :
          image_src[ci] < row_stride(components[ci]) * col_stride(components[ci])

\* the configuration read_raw_data_chunk refuses, for the buffers image_dest
DecompressConfigViolation ==
    \/ ~dinfo.raw_data_out
    \/ dinfo.max_v_samp_factor * DCTSIZE > MAX_MCU_HEIGHT
    \/ Len(dcomponents) > MAX_COMPONENTS
    \/ Len(image_dest) < Len(dcomponents)

ConfigMessages == {"Raw data not set", "Subsampling factor too large",
                   "Too many components", "Bitmap too small"}

\* C12: write_raw_data is past its checks, and read_raw_data_chunk has grown a
\* buffer or called the engine, only under a configuration that passes every
\* check; a call that failed a check has called the engine for no rows and has
\* grown no buffer.
C12_ChecksPrecedeEngineWork ==
    /\ RawWriteAccepted => ~CompressConfigViolation
    /\ (session = "compress" /\ cpc = "panicked" /\ panic_msg \in ConfigMessages) =>
          rows_written = -1
    /\ (session = "decompress" /\
        (dpc = "read_raw_data_chunk" \/ lines_read >= 0
            \/ \E ci \in 1..Len(image_dest) : image_dest[ci] > 0)) =>
          ~DecompressConfigViolation
    /\ (session = "decompress" /\ panic_msg \in ConfigMessages) =>
          /\ lines_read = -1
          /\ \A ci \in 1..Len(image_dest) : image_dest[ci] = 0
          /\ dest_row_ptrs = NoRows

\* read_raw_data_chunk refusing 24-line batches: no engine call, no growth
C12_Witness ==
    /\ session = "decompress"
    /\ dpc = "panicked"
    /\ panic_msg = "Subsampling factor too large"
    /\ Len(image_dest) = Len(dcomponents)
    /\ lines_read = -1
    /\ \A ci \in 1..Len(image_dest) : image_dest[ci] = 0

\* ---- C13 ---------------------------------------------------------------
\* the reader ends before the image data of the stream does (the last byte of
\* a stream is its end-of-image marker)
DataTruncated == session = "decompress" /\ reader.len < stream.len - 1

\* C13: when the input ended before the image data did, read_scanlines has not
\* returned a bitmap of the full size of the image.
C13_NoFullBitmapFromTruncated ==
    DataTruncated =>
        ~(dret = "Some" /\ bitmap_len = dinfo.output_width * dinfo.output_height)

\* ---- C14 ---------------------------------------------------------------
\* the sampling factors of component i
Factor(i) == <<components[i].h_samp_factor, components[i].v_samp_factor>>

\* the factors of the first three components are those of the chroma pixel
\* sizes px = <<cb, cr>>
FactorsOfPx(px) ==
    LET mh == Max(px[1][1], px[2][1])
        mv == Max(px[1][2], px[2][2])
    IN  /\ Factor(1) = <<mh, mv>>
        /\ Len(components) >= 2 => Factor(2) = <<mh \div px[1][1], mv \div px[1][2]>>
        /\ Len(components) >= 3 => Factor(3) = <<mh \div px[2][1], mv \div px[2][2]>>

\* C14: after set_chroma_sampling_pixel_sizes(cb, cr) the first component has
\* the factors (max(cb.h, cr.h), max(cb.v, cr.v)) and each chroma component the
\* maximum divided by its own pixel size, rounding down; (1,1),(1,1) gives 1
\* everywhere and (2,2),(2,2) gives 2 for luma and 1 for chroma; the call leaves
\* the factors of the components beyond the third as they were.
C14_ChromaSamplingFactors ==
    /\ [](px_sizes # <<>> =>
            /\ FactorsOfPx(px_sizes)
            /\ px_sizes = <<<<1, 1>>, <<1, 1>>>> =>
                   \A i \in 1..Min(3, Len(components)) : Factor(i) = <<1, 1>>
            /\ px_sizes = <<<<2, 2>>, <<2, 2>>>> =>
                   /\ Factor(1) = <<2, 2>>
                   /\ \A i \in 2..Min(3, Len(components)) : Factor(i) = <<1, 1>>)
    /\ [][px_sizes' # <<>> =>
            \A i \in 4..Len(components) :
                /\ components'[i].h_samp_factor = components[i].h_samp_factor
                /\ components'[i].v_samp_factor = components[i].v_samp_factor]_vars

\* pixel sizes 2 and 3 wide: the first chroma component gets 3 div 2 = 1, and a
\* fourth component keeps the factors components_mut gave it
C14_Witness ==
    /\ px_sizes = <<<<2, 2>>, <<3, 1>>>>
    /\ Len(components) = 4
    /\ Factor(1) = <<3, 2>>
    /\ Factor(2) = <<1, 1>>
    /\ Factor(3) = <<1, 2>>
    /\ Factor(4) = <<2, 2>>

\* ---- C15 ---------------------------------------------------------------
ScanMode == session = "compress" /\ ~cinfo.raw_data_in

\* C15: write_scanlines offers the engine the rows of image_src in order: each
\* offer starts at the first row not yet accepted and ends with its chunk, so
\* no row is offered again once accepted and none is passed over; the call
\* returns true exactly when every row of image_src was accepted, and false as
\* soon as an engine call accepted no row.
C15_ScanlinesInOrder ==
    ScanMode =>
        /\ cpc = "jpeg_write_scanlines" =>
              /\ row_pointers = accepted
              /\ rows_left > 0
              /\ row_pointers + rows_left = chunk_start + chunk_len
              /\ chunk_start + chunk_len <= scan_rows
        /\ cpc = "write_scanlines" => chunk_start = accepted /\ accepted <= scan_rows
        /\ cret = "true" => (scan_rows > 0 /\ accepted = scan_rows)
        /\ (cret # "none" /\ accepted = scan_rows) => cret = "true"
        /\ cret = "false" <=> rows_written = 0
        /\ cret = "false" => accepted < scan_rows

\* the whole image handed over in one call and accepted, the second chunk
\* holding its last row
C15_Witness ==
    /\ ScanMode
    /\ cret = "true"
    /\ scan_rows = cinfo.image_height
    /\ scan_rows > MAX_MCU_HEIGHT
    /\ chunk_start = scan_rows
    /\ cinfo.next_scanline = cinfo.image_height

\* ---- C19 ---------------------------------------------------------------
\* the last engine write call accepted fewer rows than it was offered
ScanPartial ==
    /\ ScanMode /\ ~fatal
    /\ rows_left > 0 /\ rows_written >= 0
    /\ rows_written = 0 \/ row_pointers > chunk_start
RawPartial ==
    /\ session = "compress" /\ cinfo.raw_data_in /\ ~fatal /\ cpc # "panicked"
    /\ rows_written >= 0
    /\ rows_written < cinfo.max_v_samp_factor * DCTSIZE

\* C19 as stated: after an engine write call that accepted fewer rows than
\* offered, the call is over and has returned false.
C19_PartialIsTerminal ==
    (ScanPartial \/ RawPartial) => (cret = "false" /\ cpc = "ready")

\* C19, amended: only an engine write call that accepted no row ends the call
\* with false; after one that accepted some rows but not all, write_scanlines
\* offers the rest of the chunk and write_raw_data builds its next batch from
\* the row after the last accepted one, so no row is dropped.
C19_OnlyZeroIsTerminal ==
    session = "compress" =>
        /\ rows_written = 0 =>
              /\ cret = "false"
              /\ cpc \notin {"write_scanlines", "jpeg_write_scanlines", "write_raw_data"}
        /\ cret = "false" => rows_written = 0
        /\ (ScanMode /\ cpc = "jpeg_write_scanlines") =>
              /\ row_pointers = accepted
              /\ rows_left = chunk_start + chunk_len - accepted
        /\ cpc = "write_raw_data" => start_row = cinfo.next_scanline

\* the engine took one row of a chunk and write_scanlines offers the others
C19_Witness ==
    /\ ScanMode
    /\ cpc = "jpeg_write_scanlines"
    /\ rows_written = 1
    /\ row_pointers = chunk_start + 1
    /\ rows_left = chunk_len - 1
    /\ rows_left > 0

\* ---- C20 ---------------------------------------------------------------
\* C20 as stated: every chunk of write_scanlines but the last has
\* max_v_samp_factor * DCTSIZE rows.
C20_ChunksOfMcuHeight ==
    (ScanMode /\ Started /\ cpc = "jpeg_write_scanlines") =>
        chunk_len = Min(cinfo.max_v_samp_factor * DCTSIZE, scan_rows - chunk_start)

\* C20, amended: every chunk of write_scanlines but the last has
\* MAX_MCU_HEIGHT = 16 rows, whatever max_v_samp_factor is; the last has the
\* rows that remain.
C20_ChunksOfMaxMcuHeight ==
    (ScanMode /\ cpc = "jpeg_write_scanlines") =>
        /\ chunk_len = Min(MAX_MCU_HEIGHT, scan_rows - chunk_start)
        /\ chunk_start % MAX_MCU_HEIGHT = 0
        /\ chunk_len > 0

\* a chunk of 16 rows of an image without subsampling, whose iMCU rows have 8
C20_Witness ==
    /\ ScanMode /\ Started
    /\ cpc = "jpeg_write_scanlines"
    /\ cinfo.max_v_samp_factor = 1
    /\ chunk_len = MAX_MCU_HEIGHT
    /\ chunk_len > cinfo.max_v_samp_factor * DCTSIZE

\* ---- C16 ---------------------------------------------------------------
\* one component's batch has its null slots only after its row pointers
TailOnly(batch) ==
    \A ri \in 1..(MAX_MCU_HEIGHT - 1) : batch[ri] = NULL => batch[ri + 1] = NULL

\* the slots of a component's batch that hold a row pointer are the first n
FirstSlots(batch, n) ==
    \A ri \in 1..MAX_MCU_HEIGHT : batch[ri] # NULL <=> ri <= n

\* a step in which write_raw_data builds a batch and hands it to the engine
WriteBatchBuilt ==
    /\ session = "compress" /\ cpc = "write_raw_data"
    /\ can_write_more_lines
    /\ cpc' # "panicked"

\* a step in which read_raw_data_chunk builds a batch
ReadBatchBuilt ==
    /\ session = "decompress" /\ dpc = "read_raw_data"
    /\ dpc' = "read_raw_data_chunk"

\* C16: in every row-pointer batch built by write_raw_data and by
\* read_raw_data_chunk, each component's first comp_height slots hold row
\* pointers and the slots from comp_height up to mcu_height - 1 are null; a
\* null slot is never followed by a row pointer.
C16_NullSlotsOnlyAtTail ==
    /\ [](\A ci \in 1..MAX_COMPONENTS :
              TailOnly(row_ptrs[ci]) /\ TailOnly(dest_row_ptrs[ci]))
    /\ [][/\ WriteBatchBuilt =>
               \A ci \in 1..Len(components) :
                  /\ FirstSlots(row_ptrs'[ci], CompBatch(ci).comp_height)
                  /\ CompBatch(ci).comp_height >= DCTSIZE
                  /\ CompBatch(ci).comp_height <= cinfo.max_v_samp_factor * DCTSIZE
          /\ ReadBatchBuilt =>
               \A ci \in 1..Len(dcomponents) :
                  /\ FirstSlots(dest_row_ptrs'[ci], DecCompHeight(dcomponents[ci]))
                  /\ DecCompHeight(dcomponents[ci]) <= DecMcuHeight]_vars

\* the final batch of a subsampled image whose luma buffer has 8 rows left for
\* a batch of 16: 8 row pointers, then 8 null slots
C16_Witness ==
    /\ session = "compress"
    /\ cinfo.raw_data_in
    /\ Len(components) >= 1
    /\ components[1].v_samp_factor = 2
    /\ cinfo.max_v_samp_factor = 2
    /\ rows_written > 0
    /\ row_ptrs[1][DCTSIZE] # NULL
    /\ row_ptrs[1][DCTSIZE + 1] = NULL

\* ---- C17 ---------------------------------------------------------------
\* a step inside the loop of one read_raw_data call
InReadLoop ==
    /\ session = "decompress"
    /\ dpc \in {"read_raw_data", "read_raw_data_chunk"}

\* C17: a read_raw_data_chunk call that passes its checks makes every
\* component's buffer longer by exactly v_samp_factor * DCTSIZE * row_stride
\* bytes, appended after the bytes the buffer held, and every row of the batch
\* lies within the appended bytes, so nothing held before is written; through
\* the calls of one read loop no buffer gets shorter.
C17_ChunkGrowsBuffers ==
    [][/\ ReadBatchBuilt =>
            /\ Len(image_dest') = Len(image_dest)
            /\ \A ci \in 1..Len(image_dest) :
                 IF ci <= Len(dcomponents)
                 THEN LET comp == dcomponents[ci] IN
                      /\ image_dest'[ci] = image_dest[ci]
                            + comp.v_samp_factor * DCTSIZE * row_stride(comp)
                      /\ \A ri \in 1..MAX_MCU_HEIGHT :
                            dest_row_ptrs'[ci][ri] # NULL =>
                               /\ dest_row_ptrs'[ci][ri] >= image_dest[ci]
                               /\ dest_row_ptrs'[ci][ri] + row_stride(comp)
                                     <= image_dest'[ci]
                 ELSE image_dest'[ci] = image_dest[ci]
       /\ InReadLoop =>
            /\ Len(image_dest') = Len(image_dest)
            /\ \A ci \in 1..Len(image_dest) : image_dest'[ci] >= image_dest[ci]]_vars

\* the second chunk of an image with subsampled chroma, appended to buffers
\* that hold the first
C17_Witness ==
    /\ session = "decompress"
    /\ dpc = "read_raw_data_chunk"
    /\ dinfo.output_scanline > 0
    /\ Len(dcomponents) >= 2
    /\ dcomponents[2].v_samp_factor < dcomponents[1].v_samp_factor
    /\ dest_row_ptrs[1][1] >= DecCompHeight(dcomponents[1]) * row_stride(dcomponents[1])
    /\ dest_row_ptrs[2][1] >= DecCompHeight(dcomponents[2]) * row_stride(dcomponents[2])
    /\ image_dest[2] = dest_row_ptrs[2][1]
                         + DecCompHeight(dcomponents[2]) * row_stride(dcomponents[2])

\* ---- C18 ---------------------------------------------------------------
\* C18: when the engine's read-rows call returns zero rows for a batch,
\* read_raw_data takes it as the end of the input and leaves its loop without
\* a failure.
C18_ZeroRowsEndsLoop ==
    (session = "decompress" /\ lines_read = 0 /\ ~fatal) =>
        /\ dpc # "panicked"
        /\ panic_msg # "assertion failed: lines_read == mcu_height"

\* ---- C23 ---------------------------------------------------------------
\* C23: on a compressor with three components, once
\* set_chroma_sampling_pixel_sizes(cb, cr) has set the factors, some component
\* has h_samp_factor 1 and some component has v_samp_factor 1, and a
\* start_compress that follows does not fail its sampling-factor assertions.
C23_ChromaSamplingStartable ==
    (session = "compress" /\ px_sizes # <<>> /\ Len(components) = 3) =>
        /\ AnyH1
        /\ AnyV1
        /\ StartFailure(components) = ""
        /\ ~StartPanicked

\* pixel sizes that differ in both directions, and start_compress has reached
\* the engine's start call
C23_Witness ==
    /\ session = "compress"
    /\ px_sizes = <<WidePx, <<2, 2>>>>
    /\ Len(components) = 3
    /\ Factor(1) = <<3, 2>>
    /\ Factor(2) = <<1, 2>>
    /\ Factor(3) = <<1, 1>>
    /\ engine_start_calls > 0
    /\ cpc # "panicked"

\* ---- C22 ---------------------------------------------------------------
\* the failures building a batch can run into
BatchMessages ==
    {"row range out of the buffer", "assertion failed: comp_height >= 8",
     "index out of bounds", "range end index out of range"}

\* the rows of component ci's buffer from its first row of the batch on
AvailableRows(ci) ==
    image_src[ci] \div row_stride(components[ci]) - CompBatch(ci).comp_start_row

\* C22: in write_raw_data with every buffer of at least row_stride * col_stride
\* bytes and an engine that accepts 0 or mcu_height rows per call, for every
\* image height and every sampling with mcu_height <= 16: start_row equals the
\* engine's next_scanline; input_height - comp_start_row is never negative;
\* every batch, the last included, has at least 8 rows of every component, so
\* the assertion comp_height >= 8 holds; every row pointer lies within its
\* component's buffer.
C22_WholeBatchesFit ==
    /\ [](session = "compress" =>
            /\ panic_msg \notin BatchMessages
            /\ cpc = "write_raw_data" =>
                  /\ start_row = cinfo.next_scanline
                  /\ cinfo.max_v_samp_factor * DCTSIZE <= MAX_MCU_HEIGHT
            /\ (cpc = "write_raw_data" /\ can_write_more_lines) =>
                  \A ci \in 1..Len(components) :
                     /\ AvailableRows(ci) >= DCTSIZE
                     /\ CompBatch(ci).comp_height >= DCTSIZE
                     /\ CompBatch(ci).failure = "")
    /\ [][WriteBatchBuilt =>
            \A ci \in 1..Len(components) : \A ri \in 1..MAX_MCU_HEIGHT :
                row_ptrs'[ci][ri] # NULL =>
                   /\ row_ptrs'[ci][ri] >= 0
                   /\ row_ptrs'[ci][ri] + row_stride(components[ci]) <= image_src[ci]]_vars

\* an image of 17 rows written whole: its second batch had the last 8 rows of
\* the 24-row luma buffer, and the engine took 16 rows twice
C22_Witness ==
    /\ session = "compress"
    /\ cret = "true"
    /\ cinfo.image_height = 2 * DCTSIZE + 1
    /\ cinfo.next_scanline = 2 * MAX_MCU_HEIGHT
    /\ components[1].v_samp_factor = 2
    /\ image_src[1] = BitmapSize(components[1])
    /\ row_ptrs[1][DCTSIZE] = image_src[1] - row_stride(components[1])
    /\ row_ptrs[1][DCTSIZE + 1] = NULL

\* ---- C21 ---------------------------------------------------------------
\* C21: over any sequence of set_mem_dest, data_as_mut_slice, data_to_vec and
\* drop on a Compress, no output buffer is freed more than once and none is
\* read after it was freed; outbuffer never points to a freed buffer, and it is
\* null with outsize 0 after free_mem_dest; data_to_vec has freed the buffer
\* whether or not it could copy it; a data_to_vec or data_as_mut_slice called
\* while no buffer is set returns Err.
C21_MemDestFreedOnce ==
    /\ [](session = "compress" =>
            /\ \A buf \in 1..Len(heap) : heap[buf] <= 1
            /\ ~read_freed
            /\ outbuffer # NULL => (outbuffer \in 1..Len(heap) /\ heap[outbuffer] = 0)
            /\ outbuffer = NULL => outsize = 0
            /\ mcall \in {"data_to_vec", "drop"} =>
                  /\ outbuffer = NULL
                  /\ \A buf \in 1..Len(heap) : heap[buf] = 1
            /\ mret = "Ok" => mcall \in {"data_as_mut_slice", "data_to_vec"})
    /\ [][(/\ outbuffer = NULL
           /\ mcall' \in {"data_as_mut_slice", "data_to_vec"}
           /\ memVars' # memVars) => mret' = "Err"]_vars

\* two buffers, each taken with data_to_vec and freed once, and a further
\* data_as_mut_slice that found no buffer
C21_Witness ==
    /\ session = "compress"
    /\ heap = <<1, 1>>
    /\ outbuffer = NULL
    /\ outsize = 0
    /\ mcall = "data_as_mut_slice"
    /\ mret = "Err"
    /\ ~fatal

====
